---- MODULE Spec2Model ----
(***************************************************************************)
(* Model of metadata_search.go (package pexae): MetadataSearch.Start,      *)
(* MetadataSearchFuture.Get, MetadataSearchFuture.close and                *)
(* MetadataSearchFuture.processResult, together with the native handles    *)
(* (AE_Status, AE_MetadataSearchRequest, AE_MetadataSearchFuture,          *)
(* AE_MetadataSearchResult, AE_MetadataSearchMatch) the Go code allocates  *)
(* and releases through cgo.                                               *)
(***************************************************************************)
EXTENDS Integers, Sequences, FiniteSets, TLC

\* ------------------------------------------------------------------ bounds
NThreads == 2        \* goroutines calling Start and Get
MaxFutures == 1      \* futures the Start calls of a run make
MaxCalls == 4        \* Start and Get calls over a run
MaxMatches == 2      \* matches in a native result given to processResult
MaxSegments == 2     \* segments in a match of such a result

Threads == 1..NThreads

\* The identifiers the service hands out (lookup, UGC and asset identifiers).
IDs == {1, 2}

\* --------------------------------------------------------------- Go values
\* A Go slice value: `var s []T` is the nil slice; append makes it non-nil.
NilSlice == [isNil |-> TRUE, items |-> <<>>]

append(s, x) == [isNil |-> FALSE, items |-> Append(s.items, x)]

\* uint64(C.uint64_t): source and target are both 64-bit unsigned, the value
\* is kept.  Identifiers of the model are far below 2^64.
uint64(v) == v

\* A signed integer of the program is kept by its two's complement words of
\* 16 bits (0..2^16 - 1), the least significant first: a 64-bit one has four.
\* The sign extension of the words v of a two's complement integer.
SignWord(v) == IF v[Len(v)] >= 2^15 THEN 2^16 - 1 ELSE 0

\* A C.int64_t holding the small integer n (-2^31 < n < 2^31).
C_int64_t(n) == <<n % 2^16, (n \div 2^16) % 2^16,
                  IF n < 0 THEN 2^16 - 1 ELSE 0, IF n < 0 THEN 2^16 - 1 ELSE 0>>

\* int64(v) with the value passing through a 32-bit integer on its way.
int64_through32(v) == <<v[1], v[2], SignWord(<<v[1], v[2]>>), SignWord(<<v[1], v[2]>>)>>

\* int64(v): the conversion to Go's 64-bit signed integer keeps the low 64
\* bits of v and extends the sign of a narrower v.  A C.int64_t has 64 bits.
int64(v) == [i \in 1..4 |-> IF i <= Len(v) THEN v[i] ELSE SignWord(v)]

\* The error values the two functions return.
NoError == "nil"
AlreadyCalled == "already called"      \* errors.New("already called")
StatusError == "status error"          \* whatever statusToError made of a failed status

\* statusToError lives in another file of the package: a nil error for an OK
\* status, an error otherwise.
statusToError(cStatus) == IF cStatus = "ok" THEN NoError ELSE StatusError

\* ------------------------------------------------- native result contents
\* What a completed AE_MetadataSearchResult holds on the native side.
Seg1 == [QueryStart |-> C_int64_t(10), QueryEnd |-> C_int64_t(20),
         AssetStart |-> C_int64_t(100), AssetEnd |-> C_int64_t(110)]
Seg2 == [QueryStart |-> C_int64_t(-5), QueryEnd |-> C_int64_t(7),
         AssetStart |-> C_int64_t(0), AssetEnd |-> C_int64_t(12)]

\* Offsets over the whole range of a C.int64_t: the least and the greatest
\* value, -1, 0, 10, 2^31 and 2^32.
MinInt64 == <<0, 0, 0, 2^15>>
MaxInt64 == <<2^16 - 1, 2^16 - 1, 2^16 - 1, 2^15 - 1>>
Int64Values == {MinInt64, MaxInt64, C_int64_t(-1), C_int64_t(0), C_int64_t(10),
                <<0, 2^15, 0, 0>>, <<0, 0, 1, 0>>}

\* The native results of one match with one segment, of any such offsets.
OffsetResults ==
    {[LookupID |-> 1, UGCID |-> 2, matches |-> <<[AssetID |-> 1, segments |-> <<s>>]>>] :
        s \in [QueryStart : Int64Values, QueryEnd : Int64Values,
               AssetStart : Int64Values, AssetEnd : Int64Values]}

SegmentValues == {Seg1, Seg2}

SeqsUpTo(S, n) == UNION {[1..k -> S] : k \in 0..n}

NativeMatches == [AssetID : IDs, segments : SeqsUpTo(SegmentValues, MaxSegments)]

NativeResults == [LookupID : IDs, UGCID : IDs, matches : SeqsUpTo(NativeMatches, MaxMatches)]

\* The results the service of the concurrent model answers with: one with two
\* matches, the second without segments, and one with no match.
\* The first reports the identifier `lookup` the search was registered under,
\* the second another one.
ServiceResults(lookup) ==
    {[LookupID |-> lookup, UGCID |-> lookup + 1,
      matches |-> <<[AssetID |-> 2, segments |-> <<Seg1, Seg2>>],
                    [AssetID |-> 1, segments |-> <<>>]>>],
     [LookupID |-> lookup + 1, UGCID |-> lookup, matches |-> <<>>]}

EmptyNativeResult == [LookupID |-> 0, UGCID |-> 0, matches |-> <<>>]

\* ------------------------------------------------------------ processResult
\* AE_MetadataSearchMatch_NextSegment(cMatch, ..., &cSegmentsPos): TRUE while
\* the cursor is before the end; it then yields the segment at the cursor and
\* advances the cursor by one.
NextSegment(cMatch, cSegmentsPos) == cSegmentsPos < Len(cMatch.segments)

\* AE_MetadataSearchResult_NextMatch(cResult, cMatch, &cMatchesPos)
NextMatch(cResult, cMatchesPos) == cMatchesPos < Len(cResult.matches)

\* &Segment{...} of the inner loop body
NewSegment(c) == [QueryStart |-> int64(c.QueryStart), QueryEnd |-> int64(c.QueryEnd),
                  AssetStart |-> int64(c.AssetStart), AssetEnd |-> int64(c.AssetEnd)]

\* The inner loop: `for NextSegment(...) { segments = append(segments, ...) }`
RECURSIVE segmentLoop(_, _, _)
segmentLoop(cMatch, cSegmentsPos, segments) ==
    IF NextSegment(cMatch, cSegmentsPos)
    THEN segmentLoop(cMatch, cSegmentsPos + 1,
                     append(segments, NewSegment(cMatch.segments[cSegmentsPos + 1])))
    ELSE segments

\* &MetadataSearchMatch{...} of the outer loop body, cMatch being the match the
\* cursor just yielded; cSegmentsPos starts at 0 and segments as the nil slice.
NewMatch(cMatch) == [AssetID |-> uint64(cMatch.AssetID),
                     Segments |-> segmentLoop(cMatch, 0, NilSlice)]

\* matchLoop with `segments` declared outside the outer loop, so that it is
\* not reset from one match to the next.
RECURSIVE matchLoop_sharedSegments(_, _, _)
matchLoop_sharedSegments(cResult, cMatchesPos, matches) ==
    IF NextMatch(cResult, cMatchesPos)
    THEN LET cMatch == cResult.matches[cMatchesPos + 1]
             segments == IF matches.items = <<>> THEN NilSlice
                         ELSE matches.items[Len(matches.items)].Segments
         IN matchLoop_sharedSegments(cResult, cMatchesPos + 1,
                append(matches, [AssetID |-> uint64(cMatch.AssetID),
                                 Segments |-> segmentLoop(cMatch, 0, segments)]))
    ELSE matches

\* The outer loop: `for NextMatch(...) { ...; matches = append(matches, ...) }`
RECURSIVE matchLoop(_, _, _)
matchLoop(cResult, cMatchesPos, matches) ==
    IF NextMatch(cResult, cMatchesPos)
    THEN matchLoop(cResult, cMatchesPos + 1,
                   append(matches, NewMatch(cResult.matches[cMatchesPos + 1])))
    ELSE matches

\* processResult with the two identifiers of the result swapped.
processResult_swappedIDs(cResult) ==
    [LookupID |-> uint64(cResult.UGCID),
     UGCID |-> uint64(cResult.LookupID),
     Matches |-> matchLoop(cResult, 0, NilSlice)]

\* The value processResult returns (its cMatch handle is handled by the steps
\* of Get below).
processResult(cResult) ==
    [LookupID |-> uint64(cResult.LookupID),
     UGCID |-> uint64(cResult.UGCID),
     Matches |-> matchLoop(cResult, 0, NilSlice)]

NoResult == [LookupID |-> 0, UGCID |-> 0, Matches |-> NilSlice]

\* ------------------------------------------------------------------- state
VARIABLES
    futures,   \* the MetadataSearchFuture objects Start returned: LookupID, c, m
    native,    \* per future: its AE_MetadataSearchFuture handle and the remote search
    th,        \* per goroutine: the call it is in, its position and its locals
    stats,     \* per future: history of the Get calls made on it
    calls,     \* the number of Start and Get calls made so far
    dIn,       \* a native result handed to processResult on its own
    dOut       \* what processResult made of dIn

vars == <<futures, native, th, stats, calls, dIn, dOut>>

Kinds == {"status", "request", "future", "result", "match"}

\* The locals of a goroutine that is in no call.
IdleLocals ==
    [pc |-> "idle", op |-> "none", f |-> 0, req |-> "none",
     h |-> [k \in Kinds |-> "nil"],       \* cStatus, cRequest, cFuture, cResult, cMatch
     dels |-> [k \in Kinds |-> 0],        \* AE_..._Delete calls made on each (history)
     status |-> "none",                   \* what cStatus holds
     lookup |-> 0,                        \* what AE_MetadataSearchFuture_GetLookupID(cFuture) gives
     result |-> EmptyNativeResult,        \* what cResult holds
     defers |-> <<>>,                     \* deferred calls, the latest first
     panicking |-> FALSE,
     retFuture |-> 0, retHasResult |-> FALSE, retResult |-> NoResult, retErr |-> NoError,
     decoded |-> 0,                       \* history: runs of the decoder in this call
     remoteCalls |-> 0,                   \* history: remote calls issued by this call
     afterEnded |-> FALSE,                \* history: a Get call on f had ended when this one began
     first |-> FALSE]                     \* history: no Get call on f began before this one ended

\* ended: Get calls that returned or panicked; winners: those that returned
\* something else than "already called"; aborts: those that panicked;
\* fetches: fetch calls issued; fetchErr: a fetch reported an error; badUse:
\* the native handle was passed to the fetch or to Delete after its release.
NoStats == [ended |-> 0, winners |-> 0, aborts |-> 0, fetches |-> 0, fetchErr |-> FALSE,
            badUse |-> FALSE]

\* A history counter counts one more.
Count(n) == n + 1

Init ==
    /\ futures = <<>>
    /\ native = <<>>
    /\ th = [t \in Threads |-> IdleLocals]
    /\ stats = <<>>
    /\ calls = 0
    /\ dIn = EmptyNativeResult
    /\ dOut = [done |-> FALSE, value |-> NoResult]

Free(t) == th[t].pc = "idle"

\* ------------------------------------------- statements that touch locals only
\* Each maps the locals of a goroutine to the locals it may have afterwards.

\* `defer g()`: g runs when the function exits, the latest deferred first.
Defer(l, g) == [l EXCEPT !.defers = <<g>> \o @]

\* panic(...): the function stops where it is and its deferred calls run.
Panic(l) == [l EXCEPT !.panicking = TRUE, !.pc = "unwind"]

\* AE_<Kind>_Delete(&p) on a local handle.
Delete(l, k) == [l EXCEPT !.h[k] = "freed", !.dels[k] = Count(@)]

\* HandleNew where a failed allocation makes the function return an error.
HandleNew_returnsError(l, k, next) ==
    {[l EXCEPT !.h[k] = "live", !.pc = next],
     [l EXCEPT !.retErr = StatusError, !.pc = "unwind"]}

\* `x := C.AE_<Kind>_New(); if x == nil { panic("out of memory") }`: the
\* allocation succeeds or gives nil.
HandleNew(l, k, next) == {[l EXCEPT !.h[k] = "live", !.pc = next], Panic(l)}

\* Start: cStatus := C.AE_Status_New(); defer C.AE_Status_Delete(&cStatus)
StartStatusNew(l) ==
    {IF m.panicking THEN m ELSE Defer(m, "Status_Delete") :
         m \in HandleNew(l, "status", "s_requestNew")}

\* Start: cRequest := C.AE_MetadataSearchRequest_New(); defer ..._Delete(&cRequest)
StartRequestNew(l) ==
    {IF m.panicking THEN m ELSE Defer(m, "Request_Delete") :
         m \in HandleNew(l, "request", "s_futureNew")}

\* Start: cFuture := C.AE_MetadataSearchFuture_New(); nothing is deferred for it.
StartFutureNew(l) == HandleNew(l, "future", "s_setFingerprint")

\* Start: C.AE_MetadataSearchRequest_SetFingerprint(cRequest, req.Fingerprint.ft).
\* Reading .ft through a nil Fingerprint is a nil pointer dereference, a
\* run-time panic.
StartSetFingerprint(l) ==
    {IF l.req = "nilFingerprint" THEN Panic(l) ELSE [l EXCEPT !.pc = "s_start"]}

\* StartFailed with the C.AE_MetadataSearchFuture_Delete(&cFuture) left out.
StartFailed_noDelete(l) ==
    {[l EXCEPT !.retFuture = 0, !.retErr = statusToError(l.status), !.pc = "unwind"]}

\* Start: if err := statusToError(cStatus); err != nil {
\*            C.AE_MetadataSearchFuture_Delete(&cFuture); return nil, err }
StartFailed(l) ==
    {[Delete(l, "future") EXCEPT !.retFuture = 0, !.retErr = statusToError(l.status),
                                 !.pc = "unwind"]}

\* Start: the branch on statusToError(cStatus) after the remote call.
StartStatusToError(l) ==
    IF statusToError(l.status) # NoError THEN StartFailed(l)
    ELSE {[l EXCEPT !.pc = "s_return"]}

\* GetAlreadyCalled with the mutex released by a call at the end of Get
\* instead of a deferred one, so that this return leaves it locked.
GetAlreadyCalled_keepsLock(l) ==
    {[l EXCEPT !.retHasResult = FALSE, !.retErr = AlreadyCalled, !.defers = <<>>,
               !.pc = "unwind"]}

\* Get: if x.c == nil { return nil, errors.New("already called") }
GetAlreadyCalled(l) ==
    {[l EXCEPT !.retHasResult = FALSE, !.retErr = AlreadyCalled, !.pc = "unwind"]}

\* GetCheck with `defer x.close()` placed before the test of x.c.
GetCheck_closeDeferredFirst(l, c) ==
    IF c = "nil" THEN GetAlreadyCalled(Defer(l, "close"))
    ELSE {[Defer(l, "close") EXCEPT !.pc = "g_statusNew"]}

\* GetCheck with the `if x.c == nil` test left out.
GetCheck_noCheck(l, c) == {[Defer(l, "close") EXCEPT !.pc = "g_statusNew"]}

\* Get: the check of x.c, whose value the caller (holding x.m) read as c,
\* and, when x.c is not nil, defer x.close().
GetCheck(l, c) ==
    IF c = "nil" THEN GetAlreadyCalled(l)
    ELSE {[Defer(l, "close") EXCEPT !.pc = "g_statusNew"]}

\* Get: cStatus := C.AE_Status_New(); defer C.AE_Status_Delete(&cStatus)
GetStatusNew(l) ==
    {IF m.panicking THEN m ELSE Defer(m, "Status_Delete") :
         m \in HandleNew(l, "status", "g_resultNew")}

\* Get: cResult := C.AE_MetadataSearchResult_New(); defer ..._Delete(&cResult)
GetResultNew(l) ==
    {IF m.panicking THEN m ELSE Defer(m, "Result_Delete") :
         m \in HandleNew(l, "result", "g_fetch")}

\* GetFetchFailed where the error return skips the release of the handle.
GetFetchFailed_keepsHandle(l) ==
    {[l EXCEPT !.retHasResult = FALSE, !.retErr = statusToError(l.status),
               !.defers = SelectSeq(@, LAMBDA g : g # "close"), !.pc = "unwind"]}

\* Get: if err := statusToError(cStatus); err != nil { return nil, err }
GetFetchFailed(l) ==
    {[l EXCEPT !.retHasResult = FALSE, !.retErr = statusToError(l.status),
               !.pc = "unwind"]}

\* GetStatusToError where a failed fetch is tried a second time.
GetStatusToError_retries(l) ==
    IF statusToError(l.status) # NoError
    THEN IF l.remoteCalls < 2 THEN {[l EXCEPT !.pc = "g_fetch"]} ELSE GetFetchFailed(l)
    ELSE {[l EXCEPT !.pc = "p_matchNew"]}

\* Get: the branch on statusToError(cStatus) after the fetch; on success
\* processResult is entered.
GetStatusToError(l) ==
    IF statusToError(l.status) # NoError THEN GetFetchFailed(l)
    ELSE {[l EXCEPT !.pc = "p_matchNew"]}

\* processResult: cMatch := C.AE_MetadataSearchMatch_New(); defer ..._Delete(&cMatch)
ProcessMatchNew(l) ==
    {IF m.panicking THEN m ELSE Defer(m, "Match_Delete") :
         m \in HandleNew(l, "match", "p_decode")}

\* processResult: the two loops and the &MetadataSearchResult{...} it returns,
\* which Get returns with a nil error.
ProcessDecode(l) ==
    {[l EXCEPT !.retHasResult = TRUE, !.retResult = processResult(l.result),
               !.retErr = NoError, !.decoded = Count(@), !.pc = "unwind"]}

\* A deferred C.AE_<Kind>_Delete(&local) runs.
DeleteKind == [Status_Delete |-> "status", Request_Delete |-> "request",
               Result_Delete |-> "result", Match_Delete |-> "match"]

Pop(l) == [l EXCEPT !.defers = Tail(@)]

DeferredDelete(l) == {Pop(Delete(l, DeleteKind[Head(l.defers)]))}

\* The statement the goroutine is at, when that statement touches only its
\* locals; {} when it is at one that waits or touches a future, or at none.
LocalStep(l) ==
    CASE l.pc = "s_statusNew" -> StartStatusNew(l)
      [] l.pc = "s_requestNew" -> StartRequestNew(l)
      [] l.pc = "s_futureNew" -> StartFutureNew(l)
      [] l.pc = "s_setFingerprint" -> StartSetFingerprint(l)
      [] l.pc = "s_statusToError" -> StartStatusToError(l)
      [] l.pc = "g_statusNew" -> GetStatusNew(l)
      [] l.pc = "g_resultNew" -> GetResultNew(l)
      [] l.pc = "g_statusToError" -> GetStatusToError(l)
      [] l.pc = "p_matchNew" -> ProcessMatchNew(l)
      [] l.pc = "p_decode" -> ProcessDecode(l)
      [] l.pc = "unwind" /\ l.defers # <<>> /\ Head(l.defers) \in DOMAIN DeleteKind
            -> DeferredDelete(l)
      [] OTHER -> {}

\* The goroutine runs on through the statements that touch only its locals,
\* up to the next one that waits or touches a future.
RECURSIVE Run(_)
Run(l) == IF LocalStep(l) = {} THEN {l} ELSE UNION {Run(m) : m \in LocalStep(l)}

\* --------------------------------------------------------- MetadataSearch.Start
Requests == {"ok", "nilFingerprint"}      \* req.Fingerprint set, or nil

\* A goroutine calls x.Start(req) and runs up to the remote call.
CallStart(t, req) ==
    /\ Free(t)
    /\ calls < MaxCalls
    /\ Len(futures) + Cardinality({u \in Threads : th[u].op = "Start"}) < MaxFutures
    /\ \E l \in Run([IdleLocals EXCEPT !.pc = "s_statusNew", !.op = "Start", !.req = req]) :
          th' = [th EXCEPT ![t] = l]
    /\ calls' = calls + 1
    /\ UNCHANGED <<futures, native, stats, dIn, dOut>>

\* C.AE_MetadataSearch_Start(x.c, cRequest, cFuture, cStatus): the remote call.
\* It fails, or it registers the search and the service assigns the lookup
\* identifier that cFuture then reports.
StartRemoteCall(t) ==
    /\ th[t].pc = "s_start"
    /\ \E l \in {[th[t] EXCEPT !.status = "err", !.remoteCalls = Count(@),
                                !.pc = "s_statusToError"]}
                  \cup {[th[t] EXCEPT !.status = "ok", !.remoteCalls = Count(@),
                                      !.lookup = id, !.pc = "s_statusToError"] : id \in IDs} :
         \E m \in Run(l) : th' = [th EXCEPT ![t] = m]
    /\ UNCHANGED <<futures, native, stats, calls, dIn, dOut>>

\* StartReturnFuture with the LookupID field of the new future left unset.
StartReturnFuture_noLookupID(t) ==
    /\ th[t].pc = "s_return"
    /\ futures' = Append(futures, [LookupID |-> 0, c |-> "live", m |-> 0])
    /\ native' = Append(native, [state |-> "live", deletes |-> 0, lookup |-> th[t].lookup,
                                 svc |-> "pending"])
    /\ stats' = Append(stats, NoStats)
    /\ \E l \in Run([th[t] EXCEPT !.retFuture = Len(futures) + 1, !.retErr = NoError,
                                   !.pc = "unwind"]) :
          th' = [th EXCEPT ![t] = l]
    /\ UNCHANGED <<calls, dIn, dOut>>

\* return &MetadataSearchFuture{LookupID: uint64(..._GetLookupID(cFuture)), c: cFuture}, nil
\* The new future owns cFuture; its mutex starts unlocked.
StartReturnFuture(t) ==
    /\ th[t].pc = "s_return"
    /\ futures' = Append(futures, [LookupID |-> uint64(th[t].lookup), c |-> "live", m |-> 0])
    /\ native' = Append(native, [state |-> "live", deletes |-> 0, lookup |-> th[t].lookup,
                                 svc |-> "pending"])
    /\ stats' = Append(stats, NoStats)
    /\ \E l \in Run([th[t] EXCEPT !.retFuture = Len(futures) + 1, !.retErr = NoError,
                                   !.pc = "unwind"]) :
          th' = [th EXCEPT ![t] = l]
    /\ UNCHANGED <<calls, dIn, dOut>>

\* ----------------------------------------------------- the remote service
\* The search behind future f completes.
ServiceComplete(f) ==
    /\ f \in 1..Len(native)
    /\ native[f].svc = "pending"
    /\ native' = [native EXCEPT ![f].svc = "complete"]
    /\ UNCHANGED <<futures, th, stats, calls, dIn, dOut>>

\* --------------------------------------------------- MetadataSearchFuture.Get
\* The Get calls on future f that are under way.
Running(f) == {u \in Threads : th[u].op = "Get" /\ th[u].f = f}

\* The Start call that makes future f has returned it to its caller.
Returned(f) == \A u \in Threads : ~(th[u].op = "Start" /\ th[u].retFuture = f)

\* A goroutine calls x.Get() on a future f that Start returned.
CallGet(t, f) ==
    /\ Free(t)
    /\ f \in 1..Len(futures)
    /\ Returned(f)
    /\ calls < MaxCalls
    /\ th' = [u \in Threads |->
                IF u = t
                THEN [IdleLocals EXCEPT !.pc = "g_lock", !.op = "Get", !.f = f,
                                        !.afterEnded = (stats[f].ended > 0),
                                        !.first = (stats[f].ended = 0 /\ Running(f) = {})]
                ELSE IF u \in Running(f) THEN [th[u] EXCEPT !.first = FALSE]
                ELSE th[u]]
    /\ calls' = calls + 1
    /\ UNCHANGED <<futures, native, stats, dIn, dOut>>

\* GetLock with `defer x.m.Unlock()` written after `defer x.close()`, so that
\* the mutex is released before the handle.
GetLock_unlockDeferredLast(t) ==
    /\ th[t].pc = "g_lock"
    /\ futures[th[t].f].m = 0
    /\ futures' = [futures EXCEPT ![th[t].f].m = t]
    /\ \E l \in GetCheck(th[t], futures[th[t].f].c) :
         \E m \in Run(Defer(l, "Unlock")) : th' = [th EXCEPT ![t] = m]
    /\ UNCHANGED <<native, stats, calls, dIn, dOut>>

\* GetLock with one mutex for all the futures of the session instead of one
\* in each future.
GetLock_sessionMutex(t) ==
    /\ th[t].pc = "g_lock"
    /\ \A g \in 1..Len(futures) : futures[g].m = 0
    /\ futures' = [g \in 1..Len(futures) |-> [futures[g] EXCEPT !.m = t]]
    /\ \E l \in GetCheck(Defer(th[t], "Unlock"), futures[th[t].f].c) :
         \E m \in Run(l) : th' = [th EXCEPT ![t] = m]
    /\ UNCHANGED <<native, stats, calls, dIn, dOut>>

\* GetLock with a Lock that does not wait for the mutex to be free.
GetLock_noMutex(t) ==
    /\ th[t].pc = "g_lock"
    /\ futures' = [futures EXCEPT ![th[t].f].m = t]
    /\ \E l \in GetCheck(Defer(th[t], "Unlock"), futures[th[t].f].c) :
         \E m \in Run(l) : th' = [th EXCEPT ![t] = m]
    /\ UNCHANGED <<native, stats, calls, dIn, dOut>>

\* x.m.Lock(); defer x.m.Unlock(); then, holding the mutex, the check of x.c
\* and the statements up to the fetch.
GetLock(t) ==
    /\ th[t].pc = "g_lock"
    /\ futures[th[t].f].m = 0
    /\ futures' = [futures EXCEPT ![th[t].f].m = t]
    /\ \E l \in GetCheck(Defer(th[t], "Unlock"), futures[th[t].f].c) :
         \E m \in Run(l) : th' = [th EXCEPT ![t] = m]
    /\ UNCHANGED <<native, stats, calls, dIn, dOut>>

\* C.AE_MetadataSearchFuture_Get(x.c, cResult, cStatus): blocks until the
\* remote search has completed, then fills cStatus with the error the service
\* reports or, on success, cResult with the result.
GetFetch(t) ==
    /\ th[t].pc = "g_fetch"
    /\ LET f == th[t].f IN
       /\ native[f].svc # "pending"
       /\ \E l \in {[th[t] EXCEPT !.status = "err", !.remoteCalls = Count(@),
                                     !.pc = "g_statusToError"]}
                   \cup {[th[t] EXCEPT !.status = "ok", !.result = r, !.remoteCalls = Count(@),
                                       !.pc = "g_statusToError"] :
                             r \in ServiceResults(native[f].lookup)} :
            /\ \E m \in Run(l) : th' = [th EXCEPT ![t] = m]
            /\ stats' = [stats EXCEPT ![f].fetches = Count(@),
                                      ![f].fetchErr = @ \/ l.status = "err",
                                      ![f].badUse = @ \/ native[f].state # "live"]
    /\ UNCHANGED <<futures, native, calls, dIn, dOut>>

\* ------------------------------------------------------------ deferred calls
Deferred(t, g) == th[t].pc = "unwind" /\ th[t].defers # <<>> /\ Head(th[t].defers) = g

\* close that clears the LookupID of the future along with its handle.
close_clearsLookupID(f) ==
    /\ native' = [native EXCEPT ![f].state = "freed", ![f].deletes = Count(@)]
    /\ stats' = [stats EXCEPT ![f].badUse = @ \/ native[f].state # "live"]
    /\ futures' = [futures EXCEPT ![f].c = "nil", ![f].LookupID = 0]

\* close with `x.c = nil` left out.
close_keepsHandle(f) ==
    /\ native' = [native EXCEPT ![f].state = "freed", ![f].deletes = Count(@)]
    /\ stats' = [stats EXCEPT ![f].badUse = @ \/ native[f].state # "live"]
    /\ UNCHANGED futures

\* func (x *MetadataSearchFuture) close():
\*     C.AE_MetadataSearchFuture_Delete(&x.c); x.c = nil
close(f) ==
    /\ native' = [native EXCEPT ![f].state = "freed", ![f].deletes = Count(@)]
    /\ stats' = [stats EXCEPT ![f].badUse = @ \/ native[f].state # "live"]
    /\ futures' = [futures EXCEPT ![f].c = "nil"]

\* The deferred x.close() runs.
DeferredClose(t) ==
    /\ Deferred(t, "close")
    /\ close(th[t].f)
    /\ th' = [th EXCEPT ![t] = Pop(@)]
    /\ UNCHANGED <<calls, dIn, dOut>>

\* The deferred x.m.Unlock() runs.
DeferredUnlock(t) ==
    /\ Deferred(t, "Unlock")
    /\ futures' = [futures EXCEPT ![th[t].f].m = 0]
    /\ th' = [th EXCEPT ![t] = Pop(@)]
    /\ UNCHANGED <<native, stats, calls, dIn, dOut>>

\* The handles of its own a call leaves behind unreleased.  The cFuture of a
\* Start that returned a future is owned by that future.
LeftLive(l) ==
    {k \in Kinds : /\ l.h[k] = "live"
                   /\ ~(k = "future" /\ l.op = "Start" /\ ~l.panicking /\ l.retFuture # 0)}

\* All deferred calls of the goroutine's call have run: it is about to leave
\* the function, with its return values or, when panicking, with the panic.
AtExit(t) == th[t].pc = "unwind" /\ th[t].defers = <<>>

\* Exit where a Start that made a future returns only when the search behind
\* that future has completed.
Exit_waitsForSearch(t) ==
    /\ AtExit(t)
    /\ th[t].op = "Start" /\ th[t].retFuture # 0 => native[th[t].retFuture].svc = "complete"
    /\ th' = [th EXCEPT ![t] = IdleLocals]
    /\ IF th[t].op = "Get"
       THEN stats' = [stats EXCEPT
                ![th[t].f].ended = Count(@),
                ![th[t].f].aborts = IF th[t].panicking THEN Count(@) ELSE @,
                ![th[t].f].winners = IF ~th[t].panicking /\ th[t].retErr # AlreadyCalled
                                     THEN Count(@) ELSE @]
       ELSE UNCHANGED stats
    /\ UNCHANGED <<futures, native, calls, dIn, dOut>>

\* The call returns to its caller, or the panic leaves the function; the
\* goroutine is free for another call.
Exit(t) ==
    /\ AtExit(t)
    /\ th' = [th EXCEPT ![t] = IdleLocals]
    /\ IF th[t].op = "Get"
       THEN stats' = [stats EXCEPT
                ![th[t].f].ended = Count(@),
                ![th[t].f].aborts = IF th[t].panicking THEN Count(@) ELSE @,
                ![th[t].f].winners = IF ~th[t].panicking /\ th[t].retErr # AlreadyCalled
                                     THEN Count(@) ELSE @]
       ELSE UNCHANGED stats
    /\ UNCHANGED <<futures, native, calls, dIn, dOut>>

\* -------------------------------------------------------------- the program
Next ==
    \/ \E t \in Threads, req \in Requests : CallStart(t, req)
    \/ \E t \in Threads : StartRemoteCall(t)
    \/ \E t \in Threads : StartReturnFuture(t)
    \/ \E f \in 1..Len(futures) : ServiceComplete(f)
    \/ \E t \in Threads, f \in 1..Len(futures) : CallGet(t, f)
    \/ \E t \in Threads : GetLock(t)
    \/ \E t \in Threads : GetFetch(t)
    \/ \E t \in Threads : DeferredClose(t)
    \/ \E t \in Threads : DeferredUnlock(t)
    \/ \E t \in Threads : Exit(t)

Spec == Init /\ [][Next]_vars

\* ------------------------------------------- the Get calls on given futures
\* The state in which Start calls have returned futures with the lookup
\* identifiers ids to their callers and no call is under way.
FuturesReturned(ids) ==
    /\ futures = [f \in 1..Len(ids) |-> [LookupID |-> uint64(ids[f]), c |-> "live", m |-> 0]]
    /\ native = [f \in 1..Len(ids) |-> [state |-> "live", deletes |-> 0, lookup |-> ids[f],
                                         svc |-> "pending"]]
    /\ stats = [f \in 1..Len(ids) |-> NoStats]
    /\ th = [t \in Threads |-> IdleLocals]
    /\ calls = 0
    /\ dIn = EmptyNativeResult
    /\ dOut = [done |-> FALSE, value |-> NoResult]

\* What the service and the Get calls do.
NextGets ==
    \/ \E f \in 1..Len(futures) : ServiceComplete(f)
    \/ \E t \in Threads, f \in 1..Len(futures) : CallGet(t, f)
    \/ \E t \in Threads : GetLock(t)
    \/ \E t \in Threads : GetFetch(t)
    \/ \E t \in Threads : DeferredClose(t)
    \/ \E t \in Threads : DeferredUnlock(t)
    \/ \E t \in Threads : Exit(t)

\* Scheduling: a goroutine that can take its next step takes it in the end
\* (the Go scheduler runs every runnable goroutine, the native calls return),
\* and every search registered with the service completes.  Nothing makes a
\* caller call Get.
Fairness ==
    /\ \A t \in Threads :
          /\ WF_vars(GetLock(t)) /\ WF_vars(GetFetch(t))
          /\ WF_vars(DeferredClose(t)) /\ WF_vars(DeferredUnlock(t))
          /\ WF_vars(Exit(t))
    /\ \A f \in 1..MaxFutures : WF_vars(ServiceComplete(f))

\* The Get calls on one future, fairly scheduled.
InitOneFuture == \E id \in IDs : FuturesReturned(<<id>>)

SpecFair == InitOneFuture /\ [][NextGets]_vars /\ Fairness

\* The Get calls on two futures, of two searches the service registered
\* under identifiers of their own.
InitTwoFutures == FuturesReturned(<<1, 2>>)

SpecTwoFutures == InitTwoFutures /\ [][NextGets]_vars

\* ------------------------------------------- processResult on bounded inputs
InitDecode ==
    /\ futures = <<>>
    /\ native = <<>>
    /\ th = [t \in Threads |-> IdleLocals]
    /\ stats = <<>>
    /\ calls = 0
    /\ dIn \in NativeResults
    /\ dOut = [done |-> FALSE, value |-> NoResult]

\* processResult is applied to the native result.
DecodeRun ==
    /\ ~dOut.done
    /\ dOut' = [done |-> TRUE, value |-> processResult(dIn)]
    /\ UNCHANGED <<futures, native, th, stats, calls, dIn>>

NextDecode == DecodeRun

SpecDecode == InitDecode /\ [][NextDecode]_vars

\* ------------------------------- processResult on segments of any offsets
InitOffsets ==
    /\ futures = <<>>
    /\ native = <<>>
    /\ th = [t \in Threads |-> IdleLocals]
    /\ stats = <<>>
    /\ calls = 0
    /\ dIn \in OffsetResults
    /\ dOut = [done |-> FALSE, value |-> NoResult]

SpecOffsets == InitOffsets /\ [][NextDecode]_vars

\* ===================================================================== claims
Getting(t) == AtExit(t) /\ th[t].op = "Get"

Starting(t) == AtExit(t) /\ th[t].op = "Start"

\* What a Get call that went through the fetch returns: the decoded result
\* with a nil error, or no result with the error of the fetch.
ReturnsOutcome(l) ==
    \/ /\ l.status = "ok" /\ l.retErr = NoError /\ l.retHasResult
       /\ l.retResult = processResult(l.result)
    \/ /\ l.status = "err" /\ l.retErr = StatusError /\ ~l.retHasResult

ReturnsAlreadyCalled(l) == ~l.panicking /\ l.retErr = AlreadyCalled /\ ~l.retHasResult

\* C1: of two Get calls made one after the other on a future, the first, when
\* it returns, returns the decoded result or the error of the fetch; a Get
\* call that begins after another Get call on the future has ended (returned
\* or panicked) returns "already called" and no result.
C1_SequentialGets ==
    \A t \in Threads : Getting(t) =>
        /\ th[t].first /\ ~th[t].panicking => ReturnsOutcome(th[t])
        /\ th[t].afterEnded => ReturnsAlreadyCalled(th[t])

\* C1 witness: a second Get, begun after the first Get returned its outcome,
\* is about to return.
C1_Witness ==
    \E t \in Threads : /\ Getting(t) /\ th[t].afterEnded
                        /\ stats[th[t].f].winners = 1 /\ stats[th[t].f].ended = 1

\* C2: whatever the interleaving of the Get calls on a future, at most one of
\* them returns something else than "already called", that one returns the
\* decoded result or the error of the fetch, every other one that returns
\* returns "already called" and no result, and once all calls made have
\* returned there was exactly one such call.
Winner(t) == Getting(t) /\ ~th[t].panicking /\ th[t].retErr # AlreadyCalled

C2_SingleWinner ==
    \A f \in 1..Len(futures) :
        /\ stats[f].winners + Cardinality({t \in Threads : Winner(t) /\ th[t].f = f}) <= 1
        /\ \A t \in Threads : Getting(t) /\ th[t].f = f /\ ~th[t].panicking =>
               IF Winner(t) THEN ReturnsOutcome(th[t]) ELSE ReturnsAlreadyCalled(th[t])
        /\ Running(f) = {} /\ stats[f].ended >= 1 /\ stats[f].aborts = 0 =>
               stats[f].winners = 1

\* C2 witness: a Get call that began before any Get call on the future had
\* ended, so while the winning call was under way or about to begin, is about
\* to return "already called".
C2_Witness ==
    \E t \in Threads : Getting(t) /\ ~th[t].afterEnded /\ ReturnsAlreadyCalled(th[t])

\* C3: the native handle of a future is released at most once, has been
\* released exactly once whenever a Get call on it is about to return or has
\* returned, and is never passed to the fetch or to the release after its
\* release.
C3_ReleasedOnce ==
    \A f \in 1..Len(futures) :
        /\ native[f].deletes <= 1
        /\ ~stats[f].badUse
        /\ (native[f].state = "freed") = (native[f].deletes = 1)
        /\ stats[f].ended >= 1 \/ (\E t \in Threads : Getting(t) /\ th[t].f = f) =>
               native[f].deletes = 1

\* C3 witness: two Get calls on a future have ended and a third is about to
\* return.
C3_Witness ==
    \E t \in Threads : Getting(t) /\ stats[th[t].f].ended = 2
                        /\ native[th[t].f].deletes = 1

\* C4: a Get call whose fetch failed returns the error and no result without
\* running the decoder, with the handle released and x.c nil; the fetch is
\* not issued again, and every other Get call on that future returns "already
\* called" without a remote call.
C4_FetchFailure ==
    \A f \in 1..Len(futures) : stats[f].fetchErr =>
        /\ stats[f].fetches = 1
        /\ \A t \in Threads : Getting(t) /\ th[t].f = f =>
               IF th[t].status = "err"
               THEN /\ ~th[t].panicking /\ th[t].retErr = StatusError /\ ~th[t].retHasResult
                    /\ th[t].decoded = 0
                    /\ futures[f].c = "nil" /\ native[f].state = "freed"
                    /\ native[f].deletes = 1
               ELSE ReturnsAlreadyCalled(th[t]) /\ th[t].remoteCalls = 0

\* C4 witness: the Get call whose fetch failed has returned and a later Get
\* call on the future is about to return.
C4_Witness ==
    \E t \in Threads : /\ Getting(t) /\ th[t].afterEnded /\ stats[th[t].f].fetchErr
                        /\ th[t].status # "err"

\* C5: a Start whose remote call failed returns no future and the error, and
\* the future handle it allocated has been released, once, when it returns:
\* the call leaves no handle of its own behind.
C5_StartFailureReleases ==
    \A t \in Threads : Starting(t) /\ th[t].status = "err" =>
        /\ ~th[t].panicking
        /\ th[t].retFuture = 0 /\ th[t].retErr = StatusError
        /\ th[t].h["future"] = "freed" /\ th[t].dels["future"] = 1
        /\ LeftLive(th[t]) = {}

\* C5 witness: a Start whose remote call failed is about to return.
C5_Witness == \E t \in Threads : Starting(t) /\ th[t].status = "err"

\* The error the specification names for a missing fingerprint.
InvalidArgument == "invalid argument"

\* C6: a Start called with a request whose Fingerprint is nil returns an
\* InvalidArgument error and no future, without panicking.
C6_NilFingerprintRejected ==
    \A t \in Threads : Starting(t) /\ th[t].req = "nilFingerprint" /\ th[t].h["future"] # "nil" =>
        /\ ~th[t].panicking
        /\ th[t].retErr = InvalidArgument
        /\ th[t].retFuture = 0

\* C7: when a Start or a Get leaves the function, by a return or by a panic,
\* every native handle it allocated has been released exactly once, but for
\* the future handle that a returned future owns.
C7_HandlesReleasedOnExit ==
    \A t \in Threads : AtExit(t) =>
        /\ LeftLive(th[t]) = {}
        /\ \A k \in Kinds : th[t].h[k] = "freed" => th[t].dels[k] = 1

\* C8: a result with no match decodes to a Matches that is empty and not nil,
\* and every match with no segment to a Segments that is empty and not nil.
C8_EmptyNotNil ==
    dOut.done =>
        /\ dIn.matches = <<>> =>
               dOut.value.Matches.items = <<>> /\ ~dOut.value.Matches.isNil
        /\ \A i \in 1..Len(dIn.matches) :
               i <= Len(dOut.value.Matches.items) /\ dIn.matches[i].segments = <<>> =>
                   /\ dOut.value.Matches.items[i].Segments.items = <<>>
                   /\ ~dOut.value.Matches.items[i].Segments.isNil

\* C9: the decoded Matches has the length and the order of the matches the
\* cursor delivered, and the Segments of each decoded match are exactly the
\* segments delivered for that match, in their order.
C9_OrderPreserved ==
    dOut.done =>
        /\ Len(dOut.value.Matches.items) = Len(dIn.matches)
        /\ \A i \in 1..Len(dIn.matches) :
               /\ dOut.value.Matches.items[i].AssetID = dIn.matches[i].AssetID
               /\ dOut.value.Matches.items[i].Segments.items = dIn.matches[i].segments

\* C9 witness: a result with two different matches, each with segments of
\* its own, the first with two different ones, has been decoded.
C9_Witness ==
    /\ dOut.done
    /\ Len(dIn.matches) = 2
    /\ dIn.matches[1].AssetID # dIn.matches[2].AssetID
    /\ Len(dIn.matches[1].segments) = 2
    /\ dIn.matches[1].segments[1] # dIn.matches[1].segments[2]
    /\ Len(dIn.matches[2].segments) = 1

\* C10: when the result the service delivers reports the identifier the
\* search was registered under, the LookupID of the result a Get returns is
\* the LookupID of the future.
C10_LookupIDRoundTrip ==
    \A t \in Threads :
        /\ Getting(t) /\ ~th[t].panicking /\ th[t].retHasResult
        /\ th[t].result.LookupID = native[th[t].f].lookup
        => th[t].retResult.LookupID = futures[th[t].f].LookupID

\* C10 witness: a Get is about to return the result of such a service.
C10_Witness ==
    \E t \in Threads :
        /\ Getting(t) /\ ~th[t].panicking /\ th[t].retHasResult
        /\ th[t].result.LookupID = native[th[t].f].lookup

\* C11: every decoded Segment carries, each in its own field, exactly the four
\* offsets the result handle yielded for it, whatever 64-bit signed values
\* they are.
C11_OffsetFidelity ==
    dOut.done =>
        /\ Len(dOut.value.Matches.items) = Len(dIn.matches)
        /\ \A i \in 1..Len(dIn.matches) :
             LET in == dIn.matches[i].segments
                 out == dOut.value.Matches.items[i].Segments.items
             IN /\ Len(out) = Len(in)
                /\ \A j \in 1..Len(in) :
                     /\ out[j].QueryStart = in[j].QueryStart
                     /\ out[j].QueryEnd = in[j].QueryEnd
                     /\ out[j].AssetStart = in[j].AssetStart
                     /\ out[j].AssetEnd = in[j].AssetEnd
                     /\ DOMAIN out[j] = {"QueryStart", "QueryEnd", "AssetStart", "AssetEnd"}

\* C11 witness: a segment whose four offsets differ from one another, the
\* least and the greatest 64-bit value and one beyond 32 bits among them, has
\* been decoded.
C11_Witness ==
    /\ dOut.done
    /\ \E m \in 1..Len(dIn.matches) : \E j \in 1..Len(dIn.matches[m].segments) :
          LET s == dIn.matches[m].segments[j]
          IN /\ s.QueryStart = MinInt64 /\ s.QueryEnd = MaxInt64
             /\ s.AssetStart = <<0, 0, 1, 0>> /\ s.AssetEnd = C_int64_t(-1)

\* C12: a Start that returns returns either a future and a nil error or no
\* future and an error; when its remote call succeeded it returns a nil error
\* and a future whose handle is live and whose LookupID is the identifier the
\* service assigned.
C12_StartOutcome ==
    \A t \in Threads : Starting(t) /\ ~th[t].panicking =>
        /\ (th[t].retFuture # 0) = (th[t].retErr = NoError)
        /\ th[t].status \in {"ok", "err"}
        /\ th[t].status = "err" => th[t].retErr = StatusError
        /\ th[t].status = "ok" =>
               /\ th[t].retErr = NoError
               /\ th[t].retFuture \in 1..Len(futures)
               /\ futures[th[t].retFuture].c = "live"
               /\ native[th[t].retFuture].state = "live"
               /\ th[t].lookup \in IDs
               /\ futures[th[t].retFuture].LookupID = th[t].lookup

\* C12 witness: a Start whose remote call succeeded is about to return.
C12_Witness ==
    \E t \in Threads : Starting(t) /\ ~th[t].panicking /\ th[t].status = "ok"
                        /\ th[t].retFuture # 0

\* C13: a Start call never waits: in every state in which a goroutine is in
\* Start, whatever the searches registered so far are doing, the next step of
\* that call can be taken (the remote start call, the construction of the
\* future or the return); in particular a Start that made a future can return
\* while the search behind it is pending.
C13_StartDoesNotWait ==
    \A t \in Threads : th[t].op = "Start" =>
        ENABLED (StartRemoteCall(t) \/ StartReturnFuture(t) \/ Exit(t))

\* C13 witness: a Start is about to return a future whose handle is live
\* while the search behind it is still pending.
C13_Witness ==
    \E t \in Threads :
        /\ Starting(t) /\ ~th[t].panicking /\ th[t].retFuture # 0
        /\ futures[th[t].retFuture].c = "live"
        /\ native[th[t].retFuture].svc = "pending"

\* C14: no call repeats a remote call: a Start or a Get issues at most one,
\* a Start that returns has issued the remote start call exactly once, and
\* over all the Get calls made on a future the fetch is issued at most once,
\* also when it failed.
C14_NoRetry ==
    /\ \A t \in Threads :
          /\ th[t].remoteCalls <= 1
          /\ Starting(t) /\ ~th[t].panicking => th[t].remoteCalls = 1
    /\ \A f \in 1..Len(futures) :
          /\ stats[f].fetches <= 1
          /\ stats[f].fetches = 0 => ~stats[f].fetchErr

\* C14 witness: the fetch of a future failed, two Get calls on the future
\* have ended and a third one is about to return.
C14_Witness ==
    \E t \in Threads : /\ Getting(t) /\ stats[th[t].f].fetchErr
                        /\ stats[th[t].f].ended = 2 /\ stats[th[t].f].fetches = 1

\* C15: a Get call that found x.c nil returns "already called" and no result
\* having issued no remote call, allocated no native handle, released none
\* and not run the decoder; and from the step in which it finds x.c nil up to
\* its return, no step changes x.c, the LookupID or the native handle of the
\* future.
FoundConsumed(l) == l.op = "Get" /\ l.retErr = AlreadyCalled

C15_State ==
    \A t \in Threads : FoundConsumed(th[t]) =>
        /\ ~th[t].panicking /\ ~th[t].retHasResult
        /\ th[t].remoteCalls = 0 /\ th[t].decoded = 0
        /\ \A k \in Kinds : th[t].h[k] = "nil" /\ th[t].dels[k] = 0
        /\ futures[th[t].f].c = "nil"

C15_Step ==
    \A t \in Threads : FoundConsumed(th'[t]) =>
        LET f == th'[t].f
        IN /\ futures'[f].c = futures[f].c
           /\ futures'[f].LookupID = futures[f].LookupID
           /\ native'[f].state = native[f].state
           /\ native'[f].deletes = native[f].deletes

\* C15: a Get call that found x.c nil did nothing but return "already called",
\* and no step changes the future while it returns.
C15_AlreadyCalledFrame == []C15_State /\ [][C15_Step]_vars

\* C15 witness: a Get call that found x.c nil is about to return, the native
\* handle of the future having been released once, by another call.
C15_Witness ==
    \E t \in Threads : /\ Getting(t) /\ FoundConsumed(th[t])
                        /\ native[th[t].f].deletes = 1 /\ futures[th[t].f].c = "nil"

\* C16: in a Get call the decoder runs only after a fetch that succeeded; the
\* handle of the future is released by the call that holds the mutex, while
\* it holds it, after its fetch and, when the fetch succeeded, after the
\* decoding; the call returns only after the release; and whenever the mutex
\* is free after the fetch was issued, x.c is nil, so that no other Get call
\* finds a live handle then.
C16_State ==
    /\ \A t \in Threads : th[t].op = "Get" =>
          /\ th[t].decoded >= 1 => th[t].remoteCalls = 1 /\ th[t].status = "ok"
          /\ Getting(t) /\ th[t].remoteCalls = 1 =>
                 /\ futures[th[t].f].c = "nil" /\ native[th[t].f].state = "freed"
                 /\ futures[th[t].f].m # t
    /\ \A f \in 1..Len(futures) :
          stats[f].fetches >= 1 /\ futures[f].m = 0 =>
              futures[f].c = "nil" /\ native[f].state = "freed"

C16_Step ==
    \A f \in 1..Len(futures) : futures'[f].c # futures[f].c =>
        LET t == futures[f].m
        IN /\ t \in Threads /\ futures'[f].m = t
           /\ th[t].op = "Get" /\ th[t].f = f /\ th[t].pc = "unwind"
           /\ futures[f].c = "live" /\ futures'[f].c = "nil"
           /\ ~th[t].panicking => th[t].remoteCalls = 1 /\ stats[f].fetches = 1
           /\ ~th[t].panicking /\ th[t].status = "ok" =>
                  th[t].decoded = 1 /\ th[t].retHasResult

\* C16: fetch, then decoding, then release under the mutex, then return.
C16_WinnerOrder == []C16_State /\ [][C16_Step]_vars

\* C16 witness: the winning call has fetched, decoded and released the handle
\* and still holds the mutex, for which another Get call is waiting.
C16_Witness ==
    \E t, u \in Threads :
        /\ th[t].op = "Get" /\ th[t].pc = "unwind" /\ th[t].defers = <<"Unlock">>
        /\ th[t].decoded = 1 /\ futures[th[t].f].c = "nil" /\ futures[th[t].f].m = t
        /\ th[u].op = "Get" /\ th[u].f = th[t].f /\ th[u].pc = "g_lock"

\* C17: the handle x.c of a future is always either live (and so is the native
\* handle behind it) or nil (and the native handle released); a step changes
\* it only from live to nil and only as a step of a Get call on that future;
\* no step makes a nil handle live, removes a future or changes its LookupID,
\* which stays the identifier the service assigned.
C17_State ==
    \A f \in 1..Len(futures) :
        /\ futures[f].c \in {"live", "nil"}
        /\ (futures[f].c = "live") = (native[f].state = "live")
        /\ (futures[f].c = "nil") = (native[f].state = "freed")
        /\ futures[f].LookupID = native[f].lookup

C17_Step ==
    /\ Len(futures') >= Len(futures)
    /\ \A f \in 1..Len(futures) :
          /\ futures'[f].LookupID = futures[f].LookupID
          /\ futures[f].c = "nil" => futures'[f].c = "nil"
          /\ futures'[f].c # futures[f].c =>
                \E t \in Threads : /\ th[t].op = "Get" /\ th[t].f = f
                                    /\ th'[t] # th[t]
                                    /\ \A u \in Threads \ {t} : th'[u] = th[u]

\* C17: x.c is live or nil, goes only from live to nil and only in a Get call,
\* and the LookupID never changes.
C17_LiveThenConsumed == []C17_State /\ [][C17_Step]_vars

\* C17 witness: the one Get call made on a future has ended and left it with
\* a nil handle and the LookupID it was made with.
C17_Witness ==
    \E f \in 1..Len(futures) :
        /\ futures[f].c = "nil" /\ futures[f].LookupID \in IDs
        /\ Running(f) = {} /\ stats[f].ended = 1

\* C18: a call in which the allocation of a native handle failed panics and
\* returns nothing: a call that returns an outcome of its remote call has
\* been given every handle it asked for, and a call whose allocation failed
\* leaves with the panic and with no future, result or error.  When that call
\* is a Get, x.c is nil, the native handle of the future released once and
\* the mutex given back when the panic leaves the function.
NeededBy(l) ==
    IF l.op = "Start" THEN {"status", "request", "future"}
    ELSE IF l.retErr = AlreadyCalled THEN {}
    ELSE IF l.status = "ok" THEN {"status", "result", "match"}
    ELSE {"status", "result"}

\* The call stopped at an allocation that gave nil.
AllocationFailed(l) ==
    /\ l.op \in {"Start", "Get"} /\ l.pc = "unwind"
    /\ \E k \in NeededBy(l) : l.h[k] = "nil"

C18_AllocationFailurePanics ==
    \A t \in Threads :
        /\ AllocationFailed(th[t]) =>
               /\ th[t].panicking
               /\ th[t].retErr = NoError /\ th[t].retFuture = 0 /\ ~th[t].retHasResult
        /\ AtExit(t) /\ ~th[t].panicking /\ th[t].retErr # AlreadyCalled =>
               /\ th[t].status \in {"ok", "err"}
               /\ \A k \in NeededBy(th[t]) : th[t].h[k] = "freed" \/ k = "future"
        /\ Getting(t) /\ AllocationFailed(th[t]) =>
               /\ futures[th[t].f].c = "nil"
               /\ native[th[t].f].state = "freed" /\ native[th[t].f].deletes = 1
               /\ futures[th[t].f].m # t

\* C18 witness: a Get whose fetch succeeded and whose processResult could not
\* allocate its match handle is about to leave with the panic.
C18_Witness ==
    \E t \in Threads : /\ Getting(t) /\ th[t].panicking /\ th[t].status = "ok"
                        /\ th[t].h["match"] = "nil"

\* C19: when every search completes and the goroutines are scheduled fairly,
\* every Get call made, however many are under way on the future, comes to
\* its end (it returns or, after a failed allocation, leaves with the panic);
\* the mutex of a future is held only by a Get call under way on it, so it is
\* free when none is; and a Get call that returns "already called" does so
\* only when the call that won the handle has released it and given the mutex
\* back.
C19_State ==
    \A f \in 1..Len(futures) :
        /\ futures[f].m # 0 =>
               /\ futures[f].m \in Running(f)
               /\ "Unlock" \in {th[futures[f].m].defers[i] :
                                   i \in 1..Len(th[futures[f].m].defers)}
        /\ Running(f) = {} => futures[f].m = 0
        /\ \A u \in Running(f) : Getting(u) /\ th[u].retErr = AlreadyCalled =>
               /\ futures[f].c = "nil"
               /\ \A t \in Running(f) \ {u} :
                      th[t].retErr # AlreadyCalled /\ th[t].pc # "g_lock" =>
                          AtExit(t) /\ futures[f].m # t

\* C19: every Get call made comes to its end, and the mutex is held only by
\* a call under way.
C19_GetsTerminate ==
    /\ []C19_State
    /\ \A t \in Threads : (th[t].op = "Get") ~> Free(t)

\* C19 witness: a Get call that began while no Get call on the future had
\* ended is about to return "already called", the fetch has been issued, and
\* the other goroutines have left their calls.
C19_Witness ==
    \E u \in Threads :
        /\ Getting(u) /\ ~th[u].afterEnded /\ th[u].retErr = AlreadyCalled
        /\ stats[th[u].f].fetches = 1 /\ futures[th[u].f].m = 0
        /\ \A t \in Threads \ {u} : Free(t)

\* C20: the futures of two Start calls are independent.  A step of a Get call
\* on one future changes nothing of another future (its handle, its LookupID,
\* its mutex, its native handle, the history of its Get calls); a Get call
\* waits only for the mutex of its own future and for the search behind its
\* own future; it returns "already called" only when a Get call on its own
\* future took the handle; and each future has its own single winner.
\* The Get calls on future g that took its handle: those that ended with
\* something else than "already called" and those under way past the check.
Took(g) ==
    stats[g].winners + stats[g].aborts
    + Cardinality({u \in Running(g) : th[u].pc # "g_lock" /\ th[u].retErr # AlreadyCalled})

C20_State ==
    /\ \A t \in Threads : th[t].op = "Get" =>
          LET g == th[t].f
          IN /\ th[t].pc = "g_lock" /\ (\A u \in Running(g) : futures[g].m # u) =>
                    ENABLED GetLock(t)
             /\ th[t].pc = "g_fetch" /\ native[g].svc = "complete" => ENABLED GetFetch(t)
             /\ Getting(t) /\ th[t].retErr = AlreadyCalled =>
                    native[g].deletes = 1 /\ Took(g) = 1
             /\ Getting(t) /\ th[t].first /\ ~th[t].panicking => ReturnsOutcome(th[t])
    /\ \A g \in 1..Len(futures) :
          /\ Took(g) <= 1
          /\ stats[g].winners + Cardinality({t \in Threads : Winner(t) /\ th[t].f = g}) <= 1
          /\ Running(g) = {} /\ stats[g].ended >= 1 /\ stats[g].aborts = 0 =>
                 stats[g].winners = 1
          /\ futures[g].m # 0 => futures[g].m \in Running(g)

C20_Step ==
    \A g \in 1..Len(futures) :
        \/ /\ futures'[g] = futures[g]
           /\ native'[g].state = native[g].state /\ native'[g].deletes = native[g].deletes
           /\ stats'[g] = stats[g]
        \/ \A t \in Threads : th'[t] # th[t] => th[t].f = g \/ th'[t].f = g

\* C20: no Get call on one future changes, blocks or consumes another future.
C20_FuturesIndependent == []C20_State /\ [][C20_Step]_vars

\* C20 witness: a Get call on the second future is about to return its
\* outcome while a Get call on the first future waits for the search behind
\* the first, which is pending, the handle of the first being live.
C20_Witness ==
    \E t, u \in Threads :
        /\ Winner(t) /\ th[t].f = 2 /\ futures[2].c = "nil"
        /\ th[u].op = "Get" /\ th[u].f = 1 /\ th[u].pc = "g_fetch"
        /\ native[1].svc = "pending" /\ futures[1].c = "live"

====
